---- MODULE Spec2Model ----
(***************************************************************************)
(* A model of src/main.py: the class Date (a validated day/month/year      *)
(* value with a string form, comparisons, a leap-year test, days-in-month  *)
(* and day-of-year), and a client that binds instances to names and calls  *)
(* the methods, as the driver under `if __name__ == "__main__"` does.      *)
(*                                                                         *)
(* Python values are records tagged with their type.  An int is            *)
(* [type |-> "int", val |-> i]; the other values carry their literal text. *)
(* (A bool is an int to isinstance; it is modelled by its integer value.)  *)
(* A Date instance is [type |-> "Date", _day, _month, _year].              *)
(* A call's outcome is a record with `raised` ("None" when it returned).   *)
(***************************************************************************)
EXTENDS Integers, Sequences, FiniteSets, TLC

VARIABLES
    data,   \* the client's names (data1, data2, ...): a Date instance or Unbound
    ctor,   \* history: the arguments of the construction that bound each name
    out     \* the last call: its method, receiver, arguments and outcome

vars == <<data, ctor, out>>

----------------------------------------------------------------------------
(* Python values *)

PyInt(i) == [type |-> "int", val |-> i]

NonInts ==
    { [type |-> "float", val |-> "3.5"],
      [type |-> "str", val |-> "x"],
      [type |-> "NoneType", val |-> "None"] }

Unbound == [type |-> "Unbound"]

isinstance_int(v) == v.type = "int"

isinstance_Date(v) == v.type = "Date"

----------------------------------------------------------------------------
(* leap_year, days_in_month: methods that read only their arguments *)

\* a variant without the century rule
leap_year_no_century(self, year) ==
    IF year % 4 # 0 THEN FALSE ELSE TRUE

leap_year(self, year) ==
    IF year % 4 # 0 THEN FALSE
    ELSE IF year % 100 = 0 /\ year % 400 # 0 THEN FALSE
    ELSE TRUE

Returned(v) == [raised |-> "None", msg |-> "", ret |-> v]

Raised(kind, text) == [raised |-> kind, msg |-> text, ret |-> "None"]

\* a variant with September among the 31-day months
days_in_month_sept31(self, month, year) ==
    IF month \in {1, 3, 5, 7, 8, 9, 10, 12} THEN Returned(31)
    ELSE IF month \in {4, 6, 11} THEN Returned(30)
    ELSE IF month = 2 THEN Returned(IF leap_year(self, year) THEN 29 ELSE 28)
    ELSE Raised("ValueError", "Invalid month")

days_in_month(self, month, year) ==
    IF month \in {1, 3, 5, 7, 8, 10, 12} THEN Returned(31)
    ELSE IF month \in {4, 6, 9, 11} THEN Returned(30)
    ELSE IF month = 2 THEN Returned(IF leap_year(self, year) THEN 29 ELSE 28)
    ELSE Raised("ValueError", "Invalid month")

----------------------------------------------------------------------------
(* __init__: the checks in the order of the code.  `calls` is the set of    *)
(* (month, year) pairs the constructor passed to days_in_month: the chained *)
(* comparison 1 <= day <= self.days_in_month(month, year) calls it only     *)
(* when 1 <= day.  The receiver of that call is the instance under          *)
(* construction, which has no fields yet.                                   *)

Fresh == [type |-> "Date"]

InitRaised(kind, text, calls) ==
    [raised |-> kind, msg |-> text, self |-> Unbound, calls |-> calls]

NewDate(day, month, year) ==
    [type |-> "Date", _day |-> day, _month |-> month, _year |-> year]

DayCheck(day, month, year) ==
    IF ~(1 <= day) THEN
        InitRaised("ValueError", "Day {day} is not valid for month {month} and year {year}.", {})
    ELSE LET dim == days_in_month(Fresh, month, year)
             called == {<<month, year>>}
         IN  IF dim.raised # "None" THEN InitRaised(dim.raised, dim.msg, called)
             ELSE IF ~(day <= dim.ret) THEN
                 InitRaised("ValueError", "Day {day} is not valid for month {month} and year {year}.", called)
             ELSE [raised |-> "None", msg |-> "",
                   self |-> NewDate(day, month, year), calls |-> called]

\* a variant that lets year 0 through (year < 0 for year < 1)
Date__init__year_zero(day, month, year) ==
    IF ~isinstance_int(day) THEN
        InitRaised("TypeError", "Day cannot be a non-integer number!", {})
    ELSE IF ~isinstance_int(month) THEN
        InitRaised("TypeError", "Month cannot be a non-integer number!", {})
    ELSE IF ~isinstance_int(year) THEN
        InitRaised("TypeError", "Year cannot be a non-integer number!", {})
    ELSE IF year.val < 0 THEN
        InitRaised("ValueError", "There is no such thing as a negative year...", {})
    ELSE IF ~(1 <= month.val /\ month.val <= 12) THEN
        InitRaised("ValueError", "Only 12 months.", {})
    ELSE DayCheck(day.val, month.val, year.val)

\* a variant that checks the month's range before the year's
Date__init__month_first(day, month, year) ==
    IF ~isinstance_int(day) THEN
        InitRaised("TypeError", "Day cannot be a non-integer number!", {})
    ELSE IF ~isinstance_int(month) THEN
        InitRaised("TypeError", "Month cannot be a non-integer number!", {})
    ELSE IF ~isinstance_int(year) THEN
        InitRaised("TypeError", "Year cannot be a non-integer number!", {})
    ELSE IF ~(1 <= month.val /\ month.val <= 12) THEN
        InitRaised("ValueError", "Only 12 months.", {})
    ELSE IF year.val < 1 THEN
        InitRaised("ValueError", "There is no such thing as a negative year...", {})
    ELSE DayCheck(day.val, month.val, year.val)

Date__init__(day, month, year) ==
    IF ~isinstance_int(day) THEN
        InitRaised("TypeError", "Day cannot be a non-integer number!", {})
    ELSE IF ~isinstance_int(month) THEN
        InitRaised("TypeError", "Month cannot be a non-integer number!", {})
    ELSE IF ~isinstance_int(year) THEN
        InitRaised("TypeError", "Year cannot be a non-integer number!", {})
    ELSE IF year.val < 1 THEN
        InitRaised("ValueError", "There is no such thing as a negative year...", {})
    ELSE IF ~(1 <= month.val /\ month.val <= 12) THEN
        InitRaised("ValueError", "Only 12 months.", {})
    ELSE DayCheck(day.val, month.val, year.val)

----------------------------------------------------------------------------
(* __str__: f"{self._day:02d}/{self._month:02d}/{self._year}".  A string is *)
(* a sequence of one-character strings.                                     *)

Digit(k) == <<"0", "1", "2", "3", "4", "5", "6", "7", "8", "9">>[k + 1]

RECURSIVE NatDigits(_)
NatDigits(n) ==
    IF n < 10 THEN <<Digit(n)>> ELSE NatDigits(n \div 10) \o <<Digit(n % 10)>>

\* format(n, "d"): the decimal form, with a minus sign below zero
FormatD(n) == IF n < 0 THEN <<"-">> \o NatDigits(-n) ELSE NatDigits(n)

RECURSIVE Zeros(_)
Zeros(k) == IF k <= 0 THEN <<>> ELSE <<"0">> \o Zeros(k - 1)

\* format(n, "02d"): zero-padded after the sign to a total width of 2
Format02d(n) ==
    LET sign == IF n < 0 THEN <<"-">> ELSE <<>>
        digits == NatDigits(IF n < 0 THEN -n ELSE n)
    IN  sign \o Zeros(2 - Len(sign) - Len(digits)) \o digits

\* a variant without the zero padding
Date__str__unpadded(self) ==
    FormatD(self._day) \o <<"/">> \o FormatD(self._month) \o <<"/">> \o FormatD(self._year)

Date__str__(self) ==
    Format02d(self._day) \o <<"/">> \o Format02d(self._month) \o <<"/">> \o FormatD(self._year)

----------------------------------------------------------------------------
(* Comparisons.  Python compares tuples by their first differing element.   *)

TupleLt(s, t) ==
    \/ \E i \in 1..Len(s) :
          /\ i <= Len(t)
          /\ \A j \in 1..(i - 1) : s[j] = t[j]
          /\ s[i] < t[i]
    \/ /\ Len(s) < Len(t)
       /\ \A j \in 1..Len(s) : s[j] = t[j]

TupleEq(s, t) == Len(s) = Len(t) /\ \A j \in 1..Len(s) : s[j] = t[j]

Date__eq__(self, other) ==
    IF ~isinstance_Date(other) THEN FALSE
    ELSE TupleEq(<<self._day, self._month, self._year>>,
                 <<other._day, other._month, other._year>>)

\* a variant that compares (day, month, year), the order __eq__ uses
Date__lt__day_first(self, other) ==
    IF ~isinstance_Date(other) THEN FALSE
    ELSE TupleLt(<<self._day, self._month, self._year>>,
                 <<other._day, other._month, other._year>>)

Date__lt__(self, other) ==
    IF ~isinstance_Date(other) THEN FALSE
    ELSE TupleLt(<<self._year, self._month, self._day>>,
                 <<other._year, other._month, other._day>>)

Date__gt__(self, other) ==
    IF ~isinstance_Date(other) THEN FALSE
    ELSE TupleLt(<<other._year, other._month, other._day>>,
                 <<self._year, self._month, self._day>>)

\* a variant that forgets the equal case
Date__le__strict(self, other) ==
    IF ~isinstance_Date(other) THEN FALSE
    ELSE TupleLt(<<self._year, self._month, self._day>>,
                 <<other._year, other._month, other._day>>)

\* a variant written as "not greater", without the isinstance test
Date__le__not_gt(self, other) == ~Date__gt__(self, other)

Date__le__(self, other) ==
    IF ~isinstance_Date(other) THEN FALSE
    ELSE \/ TupleLt(<<self._year, self._month, self._day>>,
                    <<other._year, other._month, other._day>>)
         \/ TupleEq(<<self._year, self._month, self._day>>,
                    <<other._year, other._month, other._day>>)

(* The class defines no __ge__.  For self >= other Python first asks the    *)
(* inherited object.__ge__, which answers NotImplemented, and then the      *)
(* reflected method of the other operand, other.__le__(self): Date.__le__   *)
(* when other is a Date; for an int, float, str or None that answers        *)
(* NotImplemented as well and the comparison raises TypeError.              *)
Date_ge(self, other) ==
    IF isinstance_Date(other) THEN Returned(Date__le__(other, self))
    ELSE Raised("TypeError", "'>=' not supported between instances of 'Date' and other")

----------------------------------------------------------------------------
(* day_of_year *)

RECURSIVE sum(_)
sum(s) == IF s = <<>> THEN 0 ELSE s[1] + sum(Tail(s))

days_in_months(self) ==
    <<31, IF leap_year(self, self._year) THEN 29 ELSE 28, 31, 30, 31, 30,
      31, 31, 30, 31, 30, 31>>

\* a variant whose slice takes the current month too
day_of_year_slice_month(self) ==
    sum(SubSeq(days_in_months(self), 1, self._month)) + self._day

day_of_year(self) ==
    sum(SubSeq(days_in_months(self), 1, self._month - 1)) + self._day

----------------------------------------------------------------------------
(* The client's calls.  One action per call; each records its outcome.      *)

Call(op, n, args, r, calls) ==
    [op |-> op, name |-> n, args |-> args,
     raised |-> r.raised, msg |-> r.msg, ret |-> r.ret, calls |-> calls]

Bound(n) == isinstance_Date(data[n])

\* dataN = Date(day, month, year): the name is bound only if no check raised
Construct(n, day, month, year) ==
    LET r == Date__init__(day, month, year)
    IN  /\ out' = Call("__init__", n, <<day, month, year>>,
                       [raised |-> r.raised, msg |-> r.msg, ret |-> "None"], r.calls)
        /\ IF r.raised = "None"
           THEN /\ data' = [data EXCEPT ![n] = r.self]
                /\ ctor' = [ctor EXCEPT ![n] = <<day, month, year>>]
           ELSE UNCHANGED <<data, ctor>>

Str(n) ==
    /\ Bound(n)
    /\ out' = Call("__str__", n, <<>>, Returned(Date__str__(data[n])), {})
    /\ UNCHANGED <<data, ctor>>

Eq(n, x) ==
    /\ Bound(n)
    /\ out' = Call("__eq__", n, <<x>>, Returned(Date__eq__(data[n], x)), {})
    /\ UNCHANGED <<data, ctor>>

Lt(n, x) ==
    /\ Bound(n)
    /\ out' = Call("__lt__", n, <<x>>, Returned(Date__lt__(data[n], x)), {})
    /\ UNCHANGED <<data, ctor>>

Gt(n, x) ==
    /\ Bound(n)
    /\ out' = Call("__gt__", n, <<x>>, Returned(Date__gt__(data[n], x)), {})
    /\ UNCHANGED <<data, ctor>>

Le(n, x) ==
    /\ Bound(n)
    /\ out' = Call("__le__", n, <<x>>, Returned(Date__le__(data[n], x)), {})
    /\ UNCHANGED <<data, ctor>>

Ge(n, x) ==
    /\ Bound(n)
    /\ out' = Call("__ge__", n, <<x>>, Date_ge(data[n], x), {})
    /\ UNCHANGED <<data, ctor>>

LeapYear(n, year) ==
    /\ Bound(n)
    /\ out' = Call("leap_year", n, <<year>>, Returned(leap_year(data[n], year)), {})
    /\ UNCHANGED <<data, ctor>>

DaysInMonth(n, month, year) ==
    /\ Bound(n)
    /\ out' = Call("days_in_month", n, <<month, year>>, days_in_month(data[n], month, year), {})
    /\ UNCHANGED <<data, ctor>>

DayOfYear(n) ==
    /\ Bound(n)
    /\ out' = Call("day_of_year", n, <<>>, Returned(day_of_year(data[n])), {})
    /\ UNCHANGED <<data, ctor>>

NoCall == [op |-> "", name |-> "", args |-> <<>>,
           raised |-> "None", msg |-> "", ret |-> "None", calls |-> {}]

----------------------------------------------------------------------------
(* Spec: one name, rebound by every successful construction, with every     *)
(* method called on it.  The constructor's inputs are the edges of each of  *)
(* its checks, and one non-integer per parameter.                           *)

Names == {"data1"}

DayInts == {0, 1, 28, 29, 30, 31, 32}

MonthInts == {0, 2, 4, 12, 13}

YearInts == {0, 7, 1900, 2000}

DayInputs == {PyInt(i) : i \in DayInts} \cup {[type |-> "float", val |-> "3.5"]}

MonthInputs == {PyInt(i) : i \in MonthInts} \cup {[type |-> "str", val |-> "x"]}

YearInputs == {PyInt(i) : i \in YearInts} \cup {[type |-> "NoneType", val |-> "None"]}

NonDates == NonInts \cup {PyInt(5)}

Instances(names) == {data[m] : m \in {k \in names : Bound(k)}}

Init ==
    /\ data = [n \in Names |-> Unbound]
    /\ ctor = [n \in Names |-> <<>>]
    /\ out = NoCall

Next ==
    \/ \E n \in Names, day \in DayInputs, month \in MonthInputs, year \in YearInputs :
          Construct(n, day, month, year)
    \/ \E n \in Names : Str(n)
    \/ \E n \in Names, x \in Instances(Names) \cup NonDates : Eq(n, x)
    \/ \E n \in Names, x \in Instances(Names) \cup NonDates : Lt(n, x)
    \/ \E n \in Names, x \in Instances(Names) \cup NonDates : Gt(n, x)
    \/ \E n \in Names, x \in Instances(Names) \cup NonDates : Le(n, x)
    \/ \E n \in Names, x \in Instances(Names) \cup NonDates : Ge(n, x)
    \/ \E n \in Names, year \in YearInts : LeapYear(n, year)
    \/ \E n \in Names, month \in MonthInts, year \in YearInts : DaysInMonth(n, month, year)
    \/ \E n \in Names : DayOfYear(n)

Spec == Init /\ [][Next]_vars

----------------------------------------------------------------------------
(* SpecOrder: three names bound to dates that differ in day, month or year  *)
(* (the driver's 28/9/2007 and 3/11/1986 among them), compared pairwise.    *)

OrderNames == {"data1", "data2", "data3"}

OrderDays == {3, 28}

OrderMonths == {9, 11}

OrderYears == {1986, 2007}

InitOrder ==
    /\ data = [n \in OrderNames |-> Unbound]
    /\ ctor = [n \in OrderNames |-> <<>>]
    /\ out = NoCall

NextOrder ==
    \/ \E n \in OrderNames, day \in OrderDays, month \in OrderMonths, year \in OrderYears :
          Construct(n, PyInt(day), PyInt(month), PyInt(year))
    \/ \E n \in OrderNames, x \in Instances(OrderNames) : Eq(n, x)
    \/ \E n \in OrderNames, x \in Instances(OrderNames) : Lt(n, x)
    \/ \E n \in OrderNames, x \in Instances(OrderNames) : Gt(n, x)
    \/ \E n \in OrderNames, x \in Instances(OrderNames) : Le(n, x)

SpecOrder == InitOrder /\ [][NextOrder]_vars

----------------------------------------------------------------------------
(* SpecCalendar: leap_year and days_in_month called on an instance, over a  *)
(* range of years and months that reaches both sides of every rule.         *)

FirstYear == 1600

LastYear == 2100

MaxMonthArg == 14

LeapYearArgs == (FirstYear..LastYear) \cup {-400, -100, -4, -1, 0, 1, 4, 100, 400}

MonthArgs == (-1)..MaxMonthArg

DimYearArgs == {-4, 0, 1900, 2000, 2023, 2024}

InitCalendar ==
    /\ data = [n \in Names |-> Unbound]
    /\ ctor = [n \in Names |-> <<>>]
    /\ out = NoCall

NextCalendar ==
    \/ \E n \in Names, day \in {1, 29}, year \in {2019, 2020} :
          Construct(n, PyInt(day), PyInt(2), PyInt(year))
    \/ \E n \in Names, year \in LeapYearArgs : LeapYear(n, year)
    \/ \E n \in Names, month \in MonthArgs, year \in DimYearArgs : DaysInMonth(n, month, year)

SpecCalendar == InitCalendar /\ [][NextCalendar]_vars

----------------------------------------------------------------------------
(* SpecYear: one instance, constructed once from any day and month of four  *)
(* years (one-digit, century, leap, plain), then rendered and numbered.     *)

MaxDay == 32

MaxMonth == 13

WholeYears == {7, 1900, 2000, 2002}

FirstConstruct(n, day, month, year) ==
    /\ ~Bound(n)
    /\ Construct(n, day, month, year)

InitYear ==
    /\ data = [n \in Names |-> Unbound]
    /\ ctor = [n \in Names |-> <<>>]
    /\ out = NoCall

NextYear ==
    \/ \E n \in Names, day \in 0..MaxDay, month \in 0..MaxMonth, year \in WholeYears :
          FirstConstruct(n, PyInt(day), PyInt(month), PyInt(year))
    \/ \E n \in Names : Str(n)
    \/ \E n \in Names : DayOfYear(n)

SpecYear == InitYear /\ [][NextYear]_vars

----------------------------------------------------------------------------
(* The Gregorian calendar, stated apart from the code, for the claims.      *)

Abs(y) == IF y < 0 THEN -y ELSE y

\* k divides y: y is a whole multiple of k
Divides(k, y) == \E q \in 0..Abs(y) : k * q = Abs(y)

GregorianLeap(y) == Divides(4, y) /\ (~Divides(100, y) \/ Divides(400, y))

GregorianDays(m, y) ==
    CASE m \in {1, 3, 5, 7, 8, 10, 12} -> 31
      [] m \in {4, 6, 9, 11} -> 30
      [] m = 2 -> IF GregorianLeap(y) THEN 29 ELSE 28

RealDate(d, m, y) ==
    /\ y >= 1
    /\ m \in 1..12
    /\ 1 <= d /\ d <= GregorianDays(m, y)

AllInts(args) == \A i \in 1..Len(args) : isinstance_int(args[i])

IsDate29Feb(x, y) == x = NewDate(29, 2, y)

----------------------------------------------------------------------------
(* The parts of C1: the outcome of the last construction, the instances   *)
(* that exist, and what a step may change.                                 *)

C1_Outcome ==
    (out.op = "__init__" /\ AllInts(out.args)) =>
        LET d == out.args[1].val
            m == out.args[2].val
            y == out.args[3].val
        IN  IF RealDate(d, m, y)
            THEN out.raised = "None" /\ data[out.name] = NewDate(d, m, y)
            ELSE out.raised = "ValueError"

C1_Instances ==
    \A n \in DOMAIN data :
        Bound(n) =>
            /\ RealDate(data[n]._day, data[n]._month, data[n]._year)
            /\ ctor[n] = <<PyInt(data[n]._day), PyInt(data[n]._month), PyInt(data[n]._year)>>

C1_Step ==
    /\ (out'.op = "__init__" /\ out'.raised # "None") => data' = data
    /\ out'.op # "__init__" => data' = data

(* C1: for integer inputs the constructor succeeds exactly on the triples  *)
(* that are real Gregorian dates (year >= 1, month in 1..12, day within    *)
(* the month's length, February having 29 days exactly in leap years) and  *)
(* otherwise raises ValueError and binds nothing; after any sequence of    *)
(* constructions and queries every instance that exists holds exactly the  *)
(* arguments it was constructed from, and they form a real date.           *)
C1_Construction == [](C1_Outcome /\ C1_Instances) /\ [][C1_Step]_vars

\* 29/2/2000 was accepted and is held; then 29/2/1900 was refused
C1_Witness ==
    /\ out.op = "__init__"
    /\ out.args = <<PyInt(29), PyInt(2), PyInt(1900)>>
    /\ out.raised = "ValueError"
    /\ IsDate29Feb(data["data1"], 2000)

----------------------------------------------------------------------------
(* The first check of the documented order that a triple fails.            *)

FirstFailure(args) ==
    IF ~isinstance_int(args[1]) THEN <<"TypeError", "Day cannot be a non-integer number!">>
    ELSE IF ~isinstance_int(args[2]) THEN <<"TypeError", "Month cannot be a non-integer number!">>
    ELSE IF ~isinstance_int(args[3]) THEN <<"TypeError", "Year cannot be a non-integer number!">>
    ELSE IF args[3].val < 1 THEN <<"ValueError", "There is no such thing as a negative year...">>
    ELSE IF args[2].val \notin 1..12 THEN <<"ValueError", "Only 12 months.">>
    ELSE IF ~RealDate(args[1].val, args[2].val, args[3].val)
        THEN <<"ValueError", "Day {day} is not valid for month {month} and year {year}.">>
    ELSE <<"None", "">>

(* C2: the constructor reports the first failing check in the order day    *)
(* type, month type, year type (TypeError naming the parameter), year      *)
(* range, month range, day range (ValueError); and it never passes a month *)
(* outside 1..12 to days_in_month.                                         *)
C2_CheckOrder ==
    out.op = "__init__" =>
        /\ <<out.raised, out.msg>> = FirstFailure(out.args)
        /\ \A c \in out.calls : c[1] \in 1..12

\* day, month and year are all out of range: the year is the one reported
C2_Witness ==
    /\ out.op = "__init__"
    /\ out.args = <<PyInt(0), PyInt(13), PyInt(0)>>
    /\ out.raised = "ValueError"
    /\ out.msg = "There is no such thing as a negative year..."

----------------------------------------------------------------------------
(* The last call compared an instance with a value that is not a Date.     *)

MixedCall(ops) ==
    /\ out.op \in ops
    /\ ~isinstance_Date(out.args[1])

(* C8: ==, <, > and <= between a Date and a value that is not a Date each  *)
(* return False and raise nothing.                                         *)
C8_NonDateIsFalse ==
    MixedCall({"__eq__", "__lt__", "__gt__", "__le__"}) =>
        out.raised = "None" /\ out.ret = FALSE

C8_Witness ==
    /\ MixedCall({"__le__"})
    /\ out.args[1] = PyInt(5)
    /\ out.raised = "None"
    /\ out.ret = FALSE

----------------------------------------------------------------------------
(* C9: >= between a Date and a value that is not a Date returns False and  *)
(* raises nothing, as <= does.                                             *)
C9_GeNonDateIsFalse ==
    MixedCall({"__le__", "__ge__"}) =>
        out.raised = "None" /\ out.ret = FALSE

----------------------------------------------------------------------------
(* C3: leap_year(y) is true iff y is divisible by 4 and not by 100, or by  *)
(* 400, for any integer y (negative and zero included), whatever instance  *)
(* it is called on: 2000 and 2024 are leap years, 1900 and 2023 are not.   *)
C3_LeapYearRule ==
    out.op = "leap_year" =>
        LET y == out.args[1]
        IN  /\ out.raised = "None"
            /\ out.ret = GregorianLeap(y)
            /\ y \in {2000, 2024} => out.ret = TRUE
            /\ y \in {1900, 2023} => out.ret = FALSE

\* asked of an instance whose own year, 2019, is not a leap year
C3_Witness ==
    /\ out.op = "leap_year"
    /\ out.args = <<2000>>
    /\ out.ret = TRUE
    /\ data[out.name]._year = 2019

----------------------------------------------------------------------------
(* C4: days_in_month(m, y) returns 31 for months 1, 3, 5, 7, 8, 10, 12, 30 *)
(* for 4, 6, 9, 11, and for February 29 exactly when leap_year(y) and 28   *)
(* otherwise; for a month outside 1..12 it raises ValueError.              *)
C4_DaysInMonthTable ==
    out.op = "days_in_month" =>
        LET m == out.args[1]
            y == out.args[2]
        IN  IF m \in 1..12
            THEN /\ out.raised = "None"
                 /\ out.ret = GregorianDays(m, y)
                 /\ m = 2 => (out.ret = 29 <=> leap_year(data[out.name], y))
                 /\ m = 2 => out.ret \in {28, 29}
            ELSE out.raised = "ValueError"

C4_Witness ==
    /\ out.op = "days_in_month"
    /\ out.args = <<2, 1900>>
    /\ out.raised = "None"
    /\ out.ret = 28

----------------------------------------------------------------------------
(* The days of the months before m, asked of days_in_month one by one.     *)

RECURSIVE DaysBefore(_, _)
DaysBefore(self, m) ==
    IF m <= 1 THEN 0
    ELSE DaysBefore(self, m - 1) + days_in_month(self, m - 1, self._year).ret

YearLength(y) == IF GregorianLeap(y) THEN 366 ELSE 365

(* C5: day_of_year() of a constructed Date(d, m, y) is d plus the days of  *)
(* the months before m, as days_in_month gives them for y; it lies in      *)
(* 1..365, or 1..366 in a leap year; 1 January gives 1 and 31 December 365 *)
(* or 366; Date(22, 11, 2002) gives 326.                                   *)
C5_DayOfYear ==
    out.op = "day_of_year" =>
        LET self == data[out.name]
        IN  /\ out.raised = "None"
            /\ out.ret = self._day + DaysBefore(self, self._month)
            /\ out.ret \in 1..YearLength(self._year)
            /\ (self._day = 1 /\ self._month = 1) => out.ret = 1
            /\ (self._day = 31 /\ self._month = 12) => out.ret = YearLength(self._year)
            /\ self = NewDate(22, 11, 2002) => out.ret = 326

C5_Witness ==
    /\ out.op = "day_of_year"
    /\ data[out.name] = NewDate(22, 11, 2002)
    /\ out.ret = 326

----------------------------------------------------------------------------
(* Reading a decimal numeral back, and the dates SpecYear can construct.   *)

DecimalDigits == {"0", "1", "2", "3", "4", "5", "6", "7", "8", "9"}

DigitValue(c) ==
    CASE c = "0" -> 0 [] c = "1" -> 1 [] c = "2" -> 2 [] c = "3" -> 3 [] c = "4" -> 4
      [] c = "5" -> 5 [] c = "6" -> 6 [] c = "7" -> 7 [] c = "8" -> 8 [] c = "9" -> 9

RECURSIVE ReadDecimal(_)
ReadDecimal(s) ==
    IF s = <<>> THEN 0
    ELSE 10 * ReadDecimal(SubSeq(s, 1, Len(s) - 1)) + DigitValue(s[Len(s)])

IsDecimal(s) == s # <<>> /\ \A i \in 1..Len(s) : s[i] \in DecimalDigits

ConstructibleDates ==
    {NewDate(d, m, y) : <<d, m, y>> \in
        {t \in (0..MaxDay) \X (0..MaxMonth) \X WholeYears :
            Date__init__(PyInt(t[1]), PyInt(t[2]), PyInt(t[3])).raised = "None"}}

(* C10: the string of a constructed Date(d, m, y) is d in two zero-padded  *)
(* digits, "/", m in two zero-padded digits, "/", and y in decimal with no *)
(* padding or leading zero (day 3 gives "03", year 7 gives "7"); every     *)
(* valid instance has one, and two different dates never share it.         *)
C10_StringForm ==
    out.op = "__str__" =>
        LET self == data[out.name]
            s == out.ret
            dd == SubSeq(s, 1, 2)
            mm == SubSeq(s, 4, 5)
            yyyy == SubSeq(s, 7, Len(s))
        IN  /\ out.raised = "None"
            /\ Len(s) >= 7
            /\ s[3] = "/" /\ s[6] = "/"
            /\ IsDecimal(dd) /\ ReadDecimal(dd) = self._day
            /\ IsDecimal(mm) /\ ReadDecimal(mm) = self._month
            /\ IsDecimal(yyyy) /\ yyyy[1] # "0" /\ ReadDecimal(yyyy) = self._year
            /\ self._day = 3 => dd = <<"0", "3">>
            /\ self._year = 7 => yyyy = <<"7">>
            /\ \A other \in ConstructibleDates : Date__str__(other) = s => other = self

C10_Witness ==
    /\ out.op = "__str__"
    /\ data[out.name] = NewDate(3, 11, 7)
    /\ out.ret = <<"0", "3", "/", "1", "1", "/", "7">>

----------------------------------------------------------------------------
(* Chronological order and equality of fields, stated apart from the code. *)

Earlier(a, b) ==
    \/ a._year < b._year
    \/ a._year = b._year /\ a._month < b._month
    \/ a._year = b._year /\ a._month = b._month /\ a._day < b._day

SameFields(a, b) == a._day = b._day /\ a._month = b._month /\ a._year = b._year

ExactlyOne(p, q, r) == (p /\ ~q /\ ~r) \/ (~p /\ q /\ ~r) \/ (~p /\ ~q /\ r)

(* C6: between constructed Dates, < and > order by year, then month, then  *)
(* day; exactly one of a < b, a == b, a > b holds; a == b holds iff day,   *)
(* month and year all match; and a < b, b < c give a < c.                  *)
(* Date(28,9,2007) < Date(3,11,1986) is false: the year decides first.     *)
C6_TotalOrder ==
    /\ \A a, b \in Instances(DOMAIN data) :
          /\ ExactlyOne(Date__lt__(a, b), Date__eq__(a, b), Date__gt__(a, b))
          /\ Date__eq__(a, b) <=> SameFields(a, b)
          /\ Date__lt__(a, b) <=> Earlier(a, b)
          /\ Date__gt__(a, b) <=> Earlier(b, a)
    /\ \A a, b, c \in Instances(DOMAIN data) :
          (Date__lt__(a, b) /\ Date__lt__(b, c)) => Date__lt__(a, c)
    /\ (out.op = "__lt__" /\ data[out.name] = NewDate(28, 9, 2007)
            /\ out.args[1] = NewDate(3, 11, 1986)) => out.ret = FALSE

\* three dates in a chain, and the driver's comparison just made
C6_Witness ==
    /\ out.op = "__lt__"
    /\ out.name = "data1"
    /\ out.ret = FALSE
    /\ data["data1"] = NewDate(28, 9, 2007)
    /\ data["data2"] = NewDate(3, 11, 1986)
    /\ data["data3"] = NewDate(28, 9, 1986)
    /\ out.args[1] = data["data2"]

----------------------------------------------------------------------------
(* C7: between constructed Dates, a <= b is true iff a < b or a == b, and  *)
(* iff a > b is false.                                                     *)
C7_LeConsistent ==
    (out.op = "__le__" /\ isinstance_Date(out.args[1])) =>
        LET a == data[out.name]
            b == out.args[1]
        IN  /\ out.raised = "None"
            /\ out.ret <=> (Date__lt__(a, b) \/ Date__eq__(a, b))
            /\ out.ret <=> ~Date__gt__(a, b)

\* two instances of the same date: <= holds though < does not
C7_Witness ==
    /\ out.op = "__le__"
    /\ out.name = "data1"
    /\ out.args[1] = data["data2"]
    /\ data["data1"] = NewDate(3, 11, 1986)
    /\ SameFields(data["data1"], data["data2"])
    /\ out.ret = TRUE

====
